---- MODULE Spec2Model ----
(***************************************************************************)
(* git-ai-commit (src/main.go): one invocation of the command-line tool as *)
(* a state machine, together with its pure string and URL functions.       *)
(*                                                                         *)
(* Text is a sequence of characters, each a one-character string.  Where a *)
(* run of characters is only ever compared as a whole (a path segment, a   *)
(* host name, the word "credentials") it is one element of the sequence;   *)
(* no operation of the code looks inside such an element.                  *)
(***************************************************************************)
EXTENDS Integers, Sequences, FiniteSets, TLC

\* ------------------------------------------------------------------------
\* Bounds of the model
\* ------------------------------------------------------------------------
MaxFileLen == 2
MaxDiffLen == 2
MaxSegs == 4
MaxKeyLen == 3
MaxMsgLen == 4
MaxBodyLen == 2

\* ------------------------------------------------------------------------
\* Go's strings package, as main.go uses it
\* ------------------------------------------------------------------------
\* The backtick character (a TLA+ string cannot hold one).
Backtick == "BQ"

\* All sequences over alphabet of length at most n.
RECURSIVE SeqsUpTo(_, _)
SeqsUpTo(n, alphabet) ==
  IF n = 0 THEN {<<>>}
  ELSE LET shorter == SeqsUpTo(n - 1, alphabet)
       IN shorter \cup {Append(s, c) : s \in {t \in shorter : Len(t) = n - 1}, c \in alphabet}

\* F(v), with v evaluated once.
Bind(v, F(_)) == CHOOSE r \in {F(x) : x \in {v}} : TRUE

IsSpace(c) == c \in {" ", "\n", "\r", "\t"}

\* strings.TrimSpace
TrimSpace(s) ==
  Bind(s, LAMBDA v :
    IF \A i \in 1..Len(v) : IsSpace(v[i]) THEN <<>>
    ELSE SubSeq(v,
                CHOOSE i \in 1..Len(v) : ~IsSpace(v[i]) /\ \A j \in 1..(i - 1) : IsSpace(v[j]),
                CHOOSE i \in 1..Len(v) : ~IsSpace(v[i]) /\ \A j \in (i + 1)..Len(v) : IsSpace(v[j])))

HasPrefix(s, p) == Len(s) >= Len(p) /\ SubSeq(s, 1, Len(p)) = p

HasSuffix(s, p) == Len(s) >= Len(p) /\ SubSeq(s, Len(s) - Len(p) + 1, Len(s)) = p

TrimPrefix(s, p) ==
  Bind(s, LAMBDA v : IF HasPrefix(v, p) THEN SubSeq(v, Len(p) + 1, Len(v)) ELSE v)

TrimSuffix(s, p) ==
  Bind(s, LAMBDA v : IF HasSuffix(v, p) THEN SubSeq(v, 1, Len(v) - Len(p)) ELSE v)

\* strings.ReplaceAll(s, "\r\n", "\n"): s from position i on, after acc.
RECURSIVE ReplaceCRLFFrom(_, _, _)
ReplaceCRLFFrom(s, i, acc) ==
  IF i > Len(s) THEN acc
  ELSE IF s[i] = "\r" /\ i < Len(s) /\ s[i + 1] = "\n"
       THEN ReplaceCRLFFrom(s, i + 2, Append(acc, "\n"))
       ELSE ReplaceCRLFFrom(s, i + 1, Append(acc, s[i]))

ReplaceCRLF(s) == Bind(s, LAMBDA v : ReplaceCRLFFrom(v, 1, <<>>))

\* Index of the first occurrence of character c in s, 0 when there is none.
IndexOf(s, c) ==
  Bind(s, LAMBDA v :
    IF \A i \in 1..Len(v) : v[i] # c THEN 0
    ELSE CHOOSE i \in 1..Len(v) : v[i] = c /\ \A j \in 1..(i - 1) : v[j] # c)

Contains(s, c) == \E i \in 1..Len(s) : s[i] = c

\* strings.Split(s, sep) for a one-character separator: a sequence of texts.
\* cur is the text since the last separator, out the texts before it.
RECURSIVE SplitFrom(_, _, _, _, _)
SplitFrom(s, sep, i, cur, out) ==
  IF i > Len(s) THEN Append(out, cur)
  ELSE IF s[i] = sep THEN SplitFrom(s, sep, i + 1, <<>>, Append(out, cur))
  ELSE SplitFrom(s, sep, i + 1, Append(cur, s[i]), out)

Split(s, sep) == Bind(s, LAMBDA v : SplitFrom(v, sep, 1, <<>>, <<>>))

\* ------------------------------------------------------------------------
\* sanitizeCommitMessage and hasNonCommentContent
\* ------------------------------------------------------------------------
Fence == <<Backtick, Backtick, Backtick>>

\* A plausible slip: the text between the fences is not trimmed again.
sanitizeCommitMessage_NoSecondTrim(s) ==
  Bind(TrimSuffix(TrimPrefix(TrimSpace(ReplaceCRLF(s)), Fence), Fence),
       LAMBDA t : IF t # <<>> /\ ~HasSuffix(t, <<"\n">>) THEN t \o <<"\n">> ELSE t)

sanitizeCommitMessage(s) ==
  Bind(TrimSpace(TrimSuffix(TrimPrefix(TrimSpace(ReplaceCRLF(s)), Fence), Fence)),
       LAMBDA t : IF t # <<>> /\ ~HasSuffix(t, <<"\n">>) THEN t \o <<"\n">> ELSE t)

\* A plausible slip: only the first line is looked at.
hasNonCommentContent_FirstLineOnly(commitMsg) ==
  Bind(TrimSpace(Split(ReplaceCRLF(commitMsg), "\n")[1]),
       LAMBDA trim : trim # <<>> /\ ~HasPrefix(trim, <<"#">>))

hasNonCommentContent(commitMsg) ==
  Bind(Split(ReplaceCRLF(commitMsg), "\n"), LAMBDA lines :
    \E i \in 1..Len(lines) :
      Bind(TrimSpace(lines[i]), LAMBDA trim : trim # <<>> /\ ~HasPrefix(trim, <<"#">>)))

\* ------------------------------------------------------------------------
\* Go's path package: path.Clean and path.Join
\* ------------------------------------------------------------------------
\* strings.Join(segs, "/"): segs from position i on, after acc.
RECURSIVE JoinSlashFrom(_, _, _)
JoinSlashFrom(segs, i, acc) ==
  IF i > Len(segs) THEN acc
  ELSE JoinSlashFrom(segs, i + 1, IF i = 1 THEN segs[i] ELSE acc \o <<"/">> \o segs[i])

JoinSlash(segs) == Bind(segs, LAMBDA v : JoinSlashFrom(v, 1, <<>>))

\* The elements path.Clean keeps of segs from position i on, after out:
\* empty and "." elements are dropped, ".." removes the element before it,
\* is dropped at the root of a rooted path and is kept at the start of a
\* relative one.
RECURSIVE CleanSegs(_, _, _, _)
CleanSegs(segs, i, out, rooted) ==
  IF i > Len(segs) THEN out
  ELSE IF segs[i] = <<>> \/ segs[i] = <<".">> THEN CleanSegs(segs, i + 1, out, rooted)
  ELSE IF segs[i] # <<"..">> THEN CleanSegs(segs, i + 1, Append(out, segs[i]), rooted)
  ELSE Bind(out, LAMBDA o :
         IF o # <<>> /\ o[Len(o)] # <<"..">>
         THEN CleanSegs(segs, i + 1, SubSeq(o, 1, Len(o) - 1), rooted)
         ELSE IF rooted THEN CleanSegs(segs, i + 1, o, rooted)
         ELSE CleanSegs(segs, i + 1, Append(o, segs[i]), rooted))

Clean(p) ==
  Bind(p, LAMBDA v :
    IF v = <<>> THEN <<".">>
    ELSE Bind(CleanSegs(Split(v, "/"), 1, <<>>, Head(v) = "/"), LAMBDA kept :
           IF Head(v) = "/" THEN <<"/">> \o JoinSlash(kept)
           ELSE IF kept = <<>> THEN <<".">> ELSE JoinSlash(kept)))

\* path.Join: empty leading elements are skipped, the rest joined by "/"
\* and cleaned; all elements empty gives the empty path.
RECURSIVE JoinBuf(_, _, _)
JoinBuf(elems, i, buf) ==
  IF i > Len(elems) THEN buf
  ELSE Bind(buf, LAMBDA b :
         IF b # <<>> THEN JoinBuf(elems, i + 1, b \o <<"/">> \o elems[i])
         ELSE JoinBuf(elems, i + 1, elems[i]))

Join(elems) ==
  Bind(elems, LAMBDA v :
    IF \A i \in 1..Len(v) : v[i] = <<>> THEN <<>>
    ELSE Clean(JoinBuf(v, 1, <<>>)))

\* ------------------------------------------------------------------------
\* Go's net/url package: url.Parse, URL.String, URL.Hostname, URL.Port
\* ------------------------------------------------------------------------
\* Elements of a URL text that consist of digits only, and elements that
\* start with a dot; every other multi-character element starts with a
\* letter and holds letters and digits.
DigitTokens == {"8080"}
DotTokens == {".", ".."}
PunctTokens == {"/", ":", "?", "#", " ", "=", "$", "-"}

NoURL == [Scheme |-> <<>>, Opaque |-> <<>>, Host |-> <<>>, Path |-> <<>>,
          OmitHost |-> FALSE, ForceQuery |-> FALSE, RawQuery |-> <<>>,
          Fragment |-> <<>>]

\* getScheme: the position of the ":" that ends the scheme, 0 when the text
\* has no scheme, -1 for the "missing protocol scheme" error.
RECURSIVE SchemeEnd(_, _)
SchemeEnd(s, i) ==
  IF i > Len(s) THEN 0
  ELSE IF s[i] = ":" THEN (IF i = 1 THEN -1 ELSE i)
  ELSE IF s[i] \in DigitTokens \cup DotTokens \cup {"-"} THEN (IF i = 1 THEN 0 ELSE SchemeEnd(s, i + 1))
  ELSE IF s[i] \in PunctTokens THEN 0
  ELSE SchemeEnd(s, i + 1)

\* getScheme: [err, scheme, rest]
getScheme(rawURL) ==
  Bind(SchemeEnd(rawURL, 1), LAMBDA se :
    IF se = -1 THEN [err |-> TRUE, scheme |-> <<>>, rest |-> <<>>]
    ELSE IF se = 0 THEN [err |-> FALSE, scheme |-> <<>>, rest |-> rawURL]
    ELSE [err |-> FALSE, scheme |-> SubSeq(rawURL, 1, se - 1),
          rest |-> SubSeq(rawURL, se + 1, Len(rawURL))])

\* strings.Cut(s, c): [before, after, found]
Cut(s, c) ==
  Bind(IndexOf(s, c), LAMBDA i :
    IF i = 0 THEN [before |-> s, after |-> <<>>, found |-> FALSE]
    ELSE [before |-> SubSeq(s, 1, i - 1), after |-> SubSeq(s, i + 1, Len(s)),
          found |-> TRUE])

Count(s, c) == Cardinality({i \in 1..Len(s) : s[i] = c})

\* The query of parse: a lone "?" at the end sets ForceQuery, otherwise the
\* text is cut at the first "?".
splitQuery(rest) ==
  IF HasSuffix(rest, <<"?">>) /\ Count(rest, "?") = 1
  THEN [rest |-> SubSeq(rest, 1, Len(rest) - 1), RawQuery |-> <<>>, ForceQuery |-> TRUE]
  ELSE Bind(Cut(rest, "?"), LAMBDA c :
         [rest |-> c.before, RawQuery |-> c.after, ForceQuery |-> FALSE])

\* parseHost / validOptionalPort: what follows the last ":" of the host is a
\* run of digits, possibly empty.
ValidHost(h) ==
  \/ ~Contains(h, ":")
  \/ \E i \in 1..Len(h) :
       /\ h[i] = ":"
       /\ \A j \in (i + 1)..Len(h) : h[j] \in DigitTokens

\* The authority and path of parse, for a text that has no query: [err, u].
parseRest(scheme, rest) ==
  IF ~HasPrefix(rest, <<"/">>) /\ scheme # <<>>
  THEN [err |-> FALSE, u |-> [NoURL EXCEPT !.Scheme = scheme, !.Opaque = rest]]
  ELSE IF ~HasPrefix(rest, <<"/">>) /\ Contains(Cut(rest, "/").before, ":")
  THEN [err |-> TRUE, u |-> NoURL]
  ELSE IF (scheme # <<>> \/ ~HasPrefix(rest, <<"/", "/", "/">>)) /\ HasPrefix(rest, <<"/", "/">>)
  THEN Bind(Cut(SubSeq(rest, 3, Len(rest)), "/"), LAMBDA c :
         IF ~ValidHost(c.before) THEN [err |-> TRUE, u |-> NoURL]
         ELSE [err |-> FALSE,
               u |-> [NoURL EXCEPT !.Scheme = scheme, !.Host = c.before,
                                   !.Path = IF c.found THEN <<"/">> \o c.after ELSE <<>>]])
  ELSE [err |-> FALSE,
        u |-> [NoURL EXCEPT !.Scheme = scheme, !.Path = rest,
                            !.OmitHost = (scheme # <<>> /\ HasPrefix(rest, <<"/">>))]]

\* url.Parse: [err, u].
Parse(rawURL) ==
  Bind(Cut(rawURL, "#"), LAMBDA f :
    Bind(getScheme(f.before), LAMBDA s :
      IF s.err THEN [err |-> TRUE, u |-> NoURL]
      ELSE Bind(splitQuery(s.rest), LAMBDA q :
             Bind(parseRest(s.scheme, q.rest), LAMBDA r :
               IF r.err THEN r
               ELSE [err |-> FALSE,
                     u |-> [r.u EXCEPT !.RawQuery = q.RawQuery,
                                       !.ForceQuery = q.ForceQuery,
                                       !.Fragment = f.after]]))))

\* URL.String
String(url) ==
  Bind(url, LAMBDA u :
    LET schemePart == IF u.Scheme # <<>> THEN u.Scheme \o <<":">> ELSE <<>>
        hostPart ==
          IF u.Scheme # <<>> \/ u.Host # <<>>
          THEN IF u.OmitHost /\ u.Host = <<>> THEN <<>>
               ELSE (IF u.Host # <<>> \/ u.Path # <<>> THEN <<"/", "/">> ELSE <<>>) \o u.Host
          ELSE <<>>
        slashFix == IF u.Path # <<>> /\ Head(u.Path) # "/" /\ u.Host # <<>>
                    THEN <<"/">> ELSE <<>>
        dotFix == IF schemePart \o hostPart \o slashFix = <<>>
                     /\ Contains(Cut(u.Path, "/").before, ":")
                  THEN <<".", "/">> ELSE <<>>
        body == IF u.Opaque # <<>> THEN schemePart \o u.Opaque
                ELSE schemePart \o hostPart \o slashFix \o dotFix \o u.Path
        queryPart == IF u.ForceQuery \/ u.RawQuery # <<>> THEN <<"?">> \o u.RawQuery ELSE <<>>
        fragPart == IF u.Fragment # <<>> THEN <<"#">> \o u.Fragment ELSE <<>>
    IN body \o queryPart \o fragPart)

\* URL.Hostname and URL.Port
Hostname(u) == Cut(u.Host, ":").before

Port(u) == Cut(u.Host, ":").after

\* ------------------------------------------------------------------------
\* ResolveChatCompletionsEndpoint
\* ------------------------------------------------------------------------
ChatCompletions == <<"/", "chat", "/", "completions">>

\* "/v1" is appended unless the path ends with it.
ensureV1(cleanPath) ==
  Bind(cleanPath, LAMBDA c :
    IF HasSuffix(c, <<"/", "v1">>) THEN c ELSE Join(<<c, <<"v1">>>>))

\* A plausible slip: an existing /chat/completions suffix is not removed
\* before the suffix is appended.
NormalizePath_NoStrip(p) ==
  Join(<<ensureV1(Clean(<<"/">> \o TrimPrefix(p, <<"/">>))), <<"chat">>, <<"completions">>>>)

\* The path computation of ResolveChatCompletionsEndpoint.
NormalizePath(p) ==
  Join(<<ensureV1(TrimSuffix(Clean(<<"/">> \o TrimPrefix(p, <<"/">>)), ChatCompletions)),
         <<"chat">>, <<"completions">>>>)

\* [err, url]: the canonical chat-completions URL of a configured endpoint.
ResolveChatCompletionsEndpoint(raw) ==
  IF raw = <<>> THEN [err |-> FALSE, url |-> <<>>]
  ELSE Bind(Parse(raw), LAMBDA parsed :
         IF parsed.err THEN [err |-> TRUE, url |-> <<>>]
         ELSE [err |-> FALSE,
               url |-> String([parsed.u EXCEPT !.Path = NormalizePath(parsed.u.Path),
                                               !.RawQuery = <<>>])])

\* ------------------------------------------------------------------------
\* Errors
\* ------------------------------------------------------------------------
\* An error value: its kind and the values its text carries; NoErr is nil.
NoErr == [kind |-> "", about |-> <<>>]
Err(kind, about) == [kind |-> kind, about |-> about]

\* ------------------------------------------------------------------------
\* resolveAPIKey and resolveAPIKeyFromGitCredentials
\* ------------------------------------------------------------------------
\* Simple case folding of the elements an API key text is made of.
Lower(c) ==
  CASE c = "GIT" -> "git"
    [] c = "Git" -> "git"
    [] c = "CREDENTIALS" -> "credentials"
    [] c = "Credentials" -> "credentials"
    [] OTHER -> c

EqualFold(a, b) ==
  Len(a) = Len(b) /\ \A i \in 1..Len(a) : Lower(a[i]) = Lower(b[i])

GitCredentials == <<"git", "-", "credentials">>

\* A plausible slip: a "password=" line with nothing after it is passed over.
RECURSIVE FirstPassword_SkipsEmpty(_, _)
FirstPassword_SkipsEmpty(lines, i) ==
  IF i > Len(lines) THEN <<>>
  ELSE Bind(TrimSpace(lines[i]), LAMBDA line :
         IF HasPrefix(line, <<"password", "=">>) /\ Len(line) > 2
         THEN TrimPrefix(line, <<"password", "=">>)
         ELSE FirstPassword_SkipsEmpty(lines, i + 1))

\* The first line of the helper's output that, trimmed, starts with
\* "password=", without that prefix; empty when there is none.
RECURSIVE FirstPassword(_, _)
FirstPassword(lines, i) ==
  IF i > Len(lines) THEN <<>>
  ELSE Bind(TrimSpace(lines[i]), LAMBDA line :
         IF HasPrefix(line, <<"password", "=">>)
         THEN TrimPrefix(line, <<"password", "=">>)
         ELSE FirstPassword(lines, i + 1))

\* The text written to the standard input of `git credential fill`.
CredentialInput(protocol, host, port) ==
  <<"protocol", "=">> \o protocol \o <<"\n">>
  \o <<"host", "=">> \o host \o <<"\n">>
  \o (IF port # <<>> THEN <<"host", "=">> \o host \o <<":">> \o port \o <<"\n">> ELSE <<>>)
  \o <<"username", "=", "api-key", "\n">>
  \o <<"\n">>

\* The result of a key lookup: the key and the error, and the external
\* reads made: envReads (the variables looked up) and the helper run.
NoKey == [key |-> <<>>, err |-> NoErr, helperInput |-> <<>>, helperRuns |-> 0,
          envReads |-> <<>>]

\* A plausible slip: the helper is asked whatever the endpoint holds.
credentialFill_NoEndpointCheck(endpoint, u, helper) ==
  Bind([NoKey EXCEPT !.helperInput = CredentialInput(u.Scheme, Hostname(u), Port(u)),
                     !.helperRuns = 1],
       LAMBDA ran :
         IF ~helper.ok
         THEN [ran EXCEPT !.err = Err("git credential fill failed", TrimSpace(helper.stderr))]
         ELSE Bind(FirstPassword(Split(helper.out, "\n"), 1), LAMBDA password :
                IF password = <<>>
                THEN [ran EXCEPT !.err = Err("git credential fill returned no password",
                                             u.Scheme \o <<" ">> \o Hostname(u))]
                ELSE [ran EXCEPT !.key = password]))

\* The lookup once the endpoint has been parsed into u.
credentialFill(endpoint, u, helper) ==
  IF u.Scheme = <<>> \/ Hostname(u) = <<>>
  THEN [NoKey EXCEPT !.err = Err("endpoint has no scheme or host", endpoint)]
  ELSE Bind([NoKey EXCEPT !.helperInput = CredentialInput(u.Scheme, Hostname(u), Port(u)),
                          !.helperRuns = 1],
            LAMBDA ran :
              IF ~helper.ok
              THEN [ran EXCEPT !.err = Err("git credential fill failed", TrimSpace(helper.stderr))]
              ELSE Bind(FirstPassword(Split(helper.out, "\n"), 1), LAMBDA password :
                     IF password = <<>>
                     THEN [ran EXCEPT !.err = Err("git credential fill returned no password",
                                                  u.Scheme \o <<" ">> \o Hostname(u))]
                     ELSE [ran EXCEPT !.key = password]))

\* helper is what running `git credential fill` would give: [ok, out,
\* stderr].
resolveAPIKeyFromGitCredentials(endpoint, helper) ==
  Bind(Parse(endpoint), LAMBDA parsed :
    IF parsed.err THEN [NoKey EXCEPT !.err = Err("cannot parse endpoint URL", endpoint)]
    ELSE credentialFill(endpoint, parsed.u, helper))

\* A plausible slip: the token is compared exactly, not case-insensitively.
resolveAPIKey_ExactMatch(raw, endpoint, envValue, helper) ==
  IF raw = <<>> THEN NoKey
  ELSE IF HasPrefix(raw, <<"$">>)
  THEN IF Tail(raw) = <<>>
       THEN [NoKey EXCEPT !.err = Err("environment variable name must not be empty", <<>>)]
       ELSE IF envValue = <<>>
       THEN [NoKey EXCEPT !.err = Err("environment variable is not set or is empty", Tail(raw)),
                          !.envReads = <<Tail(raw)>>]
       ELSE [NoKey EXCEPT !.key = envValue, !.envReads = <<Tail(raw)>>]
  ELSE IF raw = GitCredentials
  THEN resolveAPIKeyFromGitCredentials(endpoint, helper)
  ELSE [NoKey EXCEPT !.key = raw]

\* A plausible slip: an unset or empty variable gives an empty key.
resolveAPIKey_EmptyEnvIsKey(raw, endpoint, envValue, helper) ==
  IF raw = <<>> THEN NoKey
  ELSE IF HasPrefix(raw, <<"$">>)
  THEN IF Tail(raw) = <<>>
       THEN [NoKey EXCEPT !.err = Err("environment variable name must not be empty", <<>>)]
       ELSE [NoKey EXCEPT !.key = envValue, !.envReads = <<Tail(raw)>>]
  ELSE IF EqualFold(raw, GitCredentials)
  THEN resolveAPIKeyFromGitCredentials(endpoint, helper)
  ELSE [NoKey EXCEPT !.key = raw]

\* envValue is what os.Getenv gives for the variable the key names.
resolveAPIKey(raw, endpoint, envValue, helper) ==
  IF raw = <<>> THEN NoKey
  ELSE IF HasPrefix(raw, <<"$">>)
  THEN IF Tail(raw) = <<>>
       THEN [NoKey EXCEPT !.err = Err("environment variable name must not be empty", <<>>)]
       ELSE IF envValue = <<>>
       THEN [NoKey EXCEPT !.err = Err("environment variable is not set or is empty", Tail(raw)),
                          !.envReads = <<Tail(raw)>>]
       ELSE [NoKey EXCEPT !.key = envValue, !.envReads = <<Tail(raw)>>]
  ELSE IF EqualFold(raw, GitCredentials)
  THEN resolveAPIKeyFromGitCredentials(endpoint, helper)
  ELSE [NoKey EXCEPT !.key = raw]

\* ------------------------------------------------------------------------
\* readConfig
\* ------------------------------------------------------------------------
DefaultMaxDiffBytes == 200000
DefaultTimeoutSeconds == 30
DefaultEndpoint == <<"https", ":", "/", "/", "api.openai.com", "/", "v1">>
DefaultModel == <<"gpt-5-nano">>

\* What `git config --get` gives for a key: found or not, and the value.
Unset == [ok |-> FALSE, v |-> <<>>]
Value(v) == [ok |-> TRUE, v |-> v]

DigitValue(c) == CASE c = "0" -> 0 [] c = "1" -> 1 [] c = "2" -> 2 [] c = "3" -> 3 [] OTHER -> -1

RECURSIVE DigitsValue(_, _)
DigitsValue(s, acc) ==
  IF s = <<>> THEN acc ELSE DigitsValue(Tail(s), acc * 10 + DigitValue(Head(s)))

\* strconv.Atoi: an optional sign and at least one digit, nothing else.
Atoi(text) ==
  Bind(text, LAMBDA s :
    Bind(IF s # <<>> /\ Head(s) \in {"-", "+"} THEN Tail(s) ELSE s, LAMBDA digits :
      IF digits = <<>> \/ \E i \in 1..Len(digits) : DigitValue(digits[i]) < 0
      THEN [ok |-> FALSE, n |-> 0]
      ELSE [ok |-> TRUE,
            n |-> IF Head(s) = "-" THEN 0 - DigitsValue(digits, 0) ELSE DigitsValue(digits, 0)]))

\* The positive integer a setting holds, or the default.
PositiveOr(setting, default) ==
  IF ~setting.ok THEN default
  ELSE Bind(Atoi(TrimSpace(setting.v)), LAMBDA a : IF a.ok /\ a.n > 0 THEN a.n ELSE default)

NoConfig == [Endpoint |-> <<>>, Model |-> <<>>, APIKey |-> <<>>,
             MaxDiffBytes |-> 0, TimeoutSeconds |-> 0]

\* The configuration after the endpoint and model settings have been read.
configDefaults(store) ==
  [Endpoint |-> IF store.endpoint.ok /\ TrimSpace(store.endpoint.v) # <<>>
                THEN TrimSpace(store.endpoint.v) ELSE DefaultEndpoint,
   Model |-> IF store.model.ok THEN TrimSpace(store.model.v) ELSE DefaultModel,
   APIKey |-> <<>>,
   MaxDiffBytes |-> DefaultMaxDiffBytes,
   TimeoutSeconds |-> DefaultTimeoutSeconds]

\* The calls a key lookup makes.
keyCalls(k) ==
  <<"resolveAPIKey">>
  \o (IF k.envReads # <<>> THEN <<"getenv">> ELSE <<>>)
  \o (IF k.helperRuns > 0 THEN <<"credential fill">> ELSE <<>>)

\* readConfig from the API key on; cfg1 holds the normalised endpoint.
configFromKey(store, cfg1, envValue, helper) ==
  Bind(IF store.apiKey.ok
       THEN resolveAPIKey(TrimSpace(store.apiKey.v), cfg1.Endpoint, envValue, helper)
       ELSE NoKey,
       LAMBDA k :
         Bind(<<"config endpoint", "config model", "normalize", "config apiKey">>
              \o (IF store.apiKey.ok THEN keyCalls(k) ELSE <<>>),
              LAMBDA calls2 :
                IF k.err # NoErr
                THEN [cfg |-> cfg1, err |-> Err("ai-commit.apiKey: " \o k.err.kind, k.err.about),
                      calls |-> calls2]
                ELSE [cfg |-> [cfg1 EXCEPT
                                 !.APIKey = k.key,
                                 !.MaxDiffBytes = PositiveOr(store.maxDiffBytes, DefaultMaxDiffBytes),
                                 !.TimeoutSeconds = PositiveOr(store.timeoutSeconds, DefaultTimeoutSeconds)],
                      err |-> NoErr,
                      calls |-> calls2 \o <<"config maxDiffBytes", "config timeoutSeconds">>]))

\* A plausible slip: the key is resolved with the endpoint as configured,
\* before it is normalised.
readConfig_KeyFromRawEndpoint(store, envValue, helper) ==
  Bind(configDefaults(store), LAMBDA cfg0 :
    IF cfg0.Endpoint = <<>>
    THEN [cfg |-> cfg0, err |-> Err("missing git config: ai-commit.endpoint", <<>>),
          calls |-> <<"config endpoint", "config model">>]
    ELSE Bind(ResolveChatCompletionsEndpoint(cfg0.Endpoint), LAMBDA resolved :
           IF resolved.err
           THEN [cfg |-> cfg0, err |-> Err("invalid ai-commit.endpoint", cfg0.Endpoint),
                 calls |-> <<"config endpoint", "config model", "normalize">>]
           ELSE Bind(configFromKey(store, cfg0, envValue, helper), LAMBDA r :
                  [r EXCEPT !.cfg.Endpoint = resolved.url])))

\* store holds the five ai-commit settings of git config.  The result is the
\* configuration, the error, and the calls made, in order.
readConfig(store, envValue, helper) ==
  Bind(configDefaults(store), LAMBDA cfg0 :
    IF cfg0.Endpoint = <<>>
    THEN [cfg |-> cfg0, err |-> Err("missing git config: ai-commit.endpoint", <<>>),
          calls |-> <<"config endpoint", "config model">>]
    ELSE Bind(ResolveChatCompletionsEndpoint(cfg0.Endpoint), LAMBDA resolved :
           IF resolved.err
           THEN [cfg |-> cfg0, err |-> Err("invalid ai-commit.endpoint", cfg0.Endpoint),
                 calls |-> <<"config endpoint", "config model", "normalize">>]
           ELSE configFromKey(store, [cfg0 EXCEPT !.Endpoint = resolved.url], envValue, helper)))

\* ------------------------------------------------------------------------
\* getStagedDiff and buildPrompt
\* ------------------------------------------------------------------------
TruncationMarker == <<"\n", "\n", "[diff truncated]", "\n">>

\* A plausible slip: a diff of exactly maxBytes bytes is cut as well.
getStagedDiff_CutsAtLimit(maxBytes, out) ==
  IF maxBytes > 0 /\ Len(out) >= maxBytes
  THEN SubSeq(out, 1, maxBytes) \o TruncationMarker
  ELSE out

\* The text getStagedDiff returns for the output out of `git diff --cached`.
getStagedDiff(maxBytes, out) ==
  IF maxBytes > 0 /\ Len(out) > maxBytes
  THEN SubSeq(out, 1, maxBytes) \o TruncationMarker
  ELSE out

buildPrompt(d) == TrimSpace(<<"\n", "Write a Git commit message", "\n">> \o d \o <<"\n">>)

\* ------------------------------------------------------------------------
\* callChatCompletions: the response and what is made of it
\* ------------------------------------------------------------------------
\* A response body as read: json says whether it holds no JSON document, the
\* start of one, or a whole one; error and choices are the document's
\* fields; text is the body's bytes.
NoBody == [json |-> "none", hasError |-> FALSE, errorMessage |-> <<>>,
           choices |-> <<>>, text |-> <<>>]

StatusCode(st) ==
  CASE st = "199" -> 199 [] st = "200" -> 200 [] st = "204" -> 204
    [] st = "300" -> 300 [] st = "500" -> 500 [] OTHER -> 0

\* A plausible slip: the upper end of the success range is off by one.
completionResult_300IsSuccess(st, b) ==
  LET parsedOk == b.json = "complete"
      envelope == b.json = "complete" /\ b.hasError /\ b.errorMessage # <<>>
  IN IF StatusCode(st) < 200 \/ StatusCode(st) > 300
     THEN IF envelope
          THEN [msg |-> <<>>, err |-> Err("LLM HTTP", <<st>> \o b.errorMessage)]
          ELSE [msg |-> <<>>, err |-> Err("LLM HTTP", <<st>> \o TrimSpace(b.text))]
     ELSE IF ~parsedOk
          THEN [msg |-> <<>>, err |-> Err("parse response", TrimSpace(b.text))]
     ELSE IF envelope
          THEN [msg |-> <<>>, err |-> Err("LLM error", b.errorMessage)]
     ELSE IF Len(b.choices) = 0
          THEN [msg |-> <<>>, err |-> Err("LLM response missing choices", <<>>)]
     ELSE [msg |-> b.choices[1], err |-> NoErr]

\* A plausible slip: the choices are looked at before the error envelope.
completionResult_ChoicesFirst(st, b) ==
  LET parsedOk == b.json = "complete"
      envelope == b.json = "complete" /\ b.hasError /\ b.errorMessage # <<>>
  IN IF StatusCode(st) < 200 \/ StatusCode(st) >= 300
     THEN IF envelope
          THEN [msg |-> <<>>, err |-> Err("LLM HTTP", <<st>> \o b.errorMessage)]
          ELSE [msg |-> <<>>, err |-> Err("LLM HTTP", <<st>> \o TrimSpace(b.text))]
     ELSE IF ~parsedOk
          THEN [msg |-> <<>>, err |-> Err("parse response", TrimSpace(b.text))]
     ELSE IF Len(b.choices) > 0
          THEN [msg |-> b.choices[1], err |-> NoErr]
     ELSE IF envelope
          THEN [msg |-> <<>>, err |-> Err("LLM error", b.errorMessage)]
     ELSE [msg |-> <<>>, err |-> Err("LLM response missing choices", <<>>)]

\* What callChatCompletions returns once the body has been read: [msg, err].
completionResult(st, b) ==
  LET parsedOk == b.json = "complete"
      envelope == b.json = "complete" /\ b.hasError /\ b.errorMessage # <<>>
  IN IF StatusCode(st) < 200 \/ StatusCode(st) >= 300
     THEN IF envelope
          THEN [msg |-> <<>>, err |-> Err("LLM HTTP", <<st>> \o b.errorMessage)]
          ELSE [msg |-> <<>>, err |-> Err("LLM HTTP", <<st>> \o TrimSpace(b.text))]
     ELSE IF ~parsedOk
          THEN [msg |-> <<>>, err |-> Err("parse response", TrimSpace(b.text))]
     ELSE IF envelope
          THEN [msg |-> <<>>, err |-> Err("LLM error", b.errorMessage)]
     ELSE IF Len(b.choices) = 0
          THEN [msg |-> <<>>, err |-> Err("LLM response missing choices", <<>>)]
     ELSE [msg |-> b.choices[1], err |-> NoErr]

\* ------------------------------------------------------------------------
\* runPrepareCommitMsg: from the completion to the new file text
\* ------------------------------------------------------------------------
\* newBody of runPrepareCommitMsg before the existing text is added.
withNewline(message) ==
  Bind(message, LAMBDA m : IF HasSuffix(m, <<"\n">>) THEN m ELSE m \o <<"\n">>)

\* A plausible slip: the existing text follows the message directly.
mergeCommitMessage_NoBlankLine(message, existingText) ==
  Bind(withNewline(message), LAMBDA newBody :
    IF TrimSpace(existingText) # <<>> THEN newBody \o existingText ELSE newBody)

\* The new file text: the message on top of the existing text.
mergeCommitMessage(message, existingText) ==
  Bind(withNewline(message), LAMBDA newBody :
    IF TrimSpace(existingText) = <<>> THEN newBody
    ELSE IF HasSuffix(newBody, <<"\n", "\n">>) THEN newBody \o existingText
    ELSE newBody \o <<"\n">> \o existingText)

\* A plausible slip: the empty-message test is missing.
hookOutcome_WritesEmpty(call, existingText) ==
  IF call.err # NoErr THEN [write |-> FALSE, newBody |-> <<>>, err |-> call.err]
  ELSE [write |-> TRUE, err |-> NoErr,
        newBody |-> mergeCommitMessage(sanitizeCommitMessage(call.msg), existingText)]

\* What the hook does with the completion call's result: whether it writes
\* the file, the text it writes, and the error it returns otherwise.
hookOutcome(call, existingText) ==
  IF call.err # NoErr THEN [write |-> FALSE, newBody |-> <<>>, err |-> call.err]
  ELSE Bind(sanitizeCommitMessage(call.msg), LAMBDA message :
         IF message = <<>>
         THEN [write |-> FALSE, newBody |-> <<>>,
               err |-> Err("LLM returned empty commit message", <<>>)]
         ELSE [write |-> TRUE, err |-> NoErr,
               newBody |-> mergeCommitMessage(message, existingText)])

\* ------------------------------------------------------------------------
\* main: exit codes
\* ------------------------------------------------------------------------
\* A plausible slip: the hook reports its error through the exit code.
ExitCode_HookBlocks(command, e) == IF e = NoErr THEN 0 ELSE 1

\* The exit code main gives a subcommand whose run function returned e.
ExitCode(command, e) ==
  IF command = "hook" THEN 0
  ELSE IF e = NoErr THEN 0 ELSE 1

\* ------------------------------------------------------------------------
\* runConfig and runInstall
\* ------------------------------------------------------------------------
PresetNames == {"openai", "anthropic", "ollama", "lmstudio", "docker"}

FoldName(name) == IF name = "OpenAI" THEN "openai" ELSE name

findPreset(name) == \E p \in PresetNames : FoldName(p) = FoldName(name)

\* The preset name runConfig ends with, or the flag it rejects.
RECURSIVE parseConfigFlags(_, _)
parseConfigFlags(args, presetName) ==
  IF args = <<>> THEN [err |-> NoErr, presetName |-> presetName]
  ELSE IF Head(args) \in {"--global", "--local"}
       THEN parseConfigFlags(Tail(args), presetName)
  ELSE IF Head(args) = "--preset"
       THEN IF Len(args) >= 2 THEN parseConfigFlags(Tail(Tail(args)), args[2])
            ELSE parseConfigFlags(<<>>, presetName)
  ELSE [err |-> Err("unknown flag", <<Head(args)>>), presetName |-> presetName]

\* The error runConfig returns.
runConfig(args) ==
  Bind(parseConfigFlags(args, ""), LAMBDA flags :
    IF flags.err # NoErr THEN flags.err
    ELSE Bind(IF flags.presetName = "" THEN "openai" ELSE flags.presetName, LAMBDA presetName :
           IF ~findPreset(presetName) THEN Err("unknown preset", <<presetName>>) ELSE NoErr))

HookContent == <<"#!/bin/sh", "\n", "exec ", "git-ai-commit", " hook prepare-commit-msg", "\n">>

\* hookLine: the exec line, shown in the error of `install`.
HookLine == <<"exec ", "git-ai-commit", " hook prepare-commit-msg">>

NoFile == [exists |-> FALSE, content |-> <<>>]
File(content) == [exists |-> TRUE, content |-> content]

\* ------------------------------------------------------------------------
\* Inputs
\* ------------------------------------------------------------------------
MsgFilePath == "COMMIT_EDITMSG"

\* Command lines (os.Args without the program name).
ArgvSet ==
  { <<>>, <<"version">>, <<"help">>, <<"frobnicate">>,
    <<"hook">>, <<"hook", "commit-msg">>, <<"hook", "prepare-commit-msg">>,
    <<"hook", "prepare-commit-msg", MsgFilePath>>,
    <<"hook", "prepare-commit-msg", MsgFilePath, "merge">>,
    <<"hook", "prepare-commit-msg", MsgFilePath, "squash">>,
    <<"show">>, <<"show", "--stdin">>, <<"show", "--verbose">>,
    <<"config">>, <<"config", "--local", "--preset", "OpenAI">>,
    <<"config", "--preset">>, <<"config", "--preset", "mistral">>,
    <<"config", "--verbose">>,
    <<"install">> }

Command(args) == IF args = <<>> THEN "" ELSE args[1]

FileAlphabet == {"#", "x", " ", "\n"}
FileContents == SeqsUpTo(MaxFileLen, FileAlphabet)
MsgFiles == {NoFile} \cup {File(c) : c \in FileContents}

HookFiles == {NoFile, File(HookContent), File(<<"#!/bin/sh", "\n", "make lint", "\n">>)}

\* Settings of git config: the five ai-commit keys as a repository may hold
\* them.
Store(endpoint, model, apiKey, maxDiffBytes, timeoutSeconds) ==
  [endpoint |-> endpoint, model |-> model, apiKey |-> apiKey,
   maxDiffBytes |-> maxDiffBytes, timeoutSeconds |-> timeoutSeconds]

HostV1 == <<"https", ":", "/", "/", "h", "/", "v1", "/">>

Stores ==
  { Store(Unset, Unset, Unset, Unset, Unset),
    Store(Value(<<" ">>), Value(<<"m", " ">>), Value(<<>>), Value(<<"0">>), Value(<<"x">>)),
    Store(Value(HostV1), Unset, Value(<<"sk", " ">>), Value(<<" ", "1">>), Value(<<"2">>)),
    Store(Value(HostV1), Unset, Value(<<"$", "V">>), Value(<<"-", "1">>), Unset),
    Store(Value(HostV1), Unset, Value(<<"$">>), Unset, Unset),
    Store(Value(HostV1), Unset, Value(<<"Git", "-", "CREDENTIALS">>), Unset, Unset),
    Store(Value(<<"h", "/", "v1">>), Unset, Value(<<"git", "-", "credentials">>), Unset, Unset),
    Store(Value(<<":", "/", "/", "h">>), Unset, Unset, Unset, Unset) }

EnvValues == { <<>>, <<"e">> }

\* Outcomes of `git credential fill`.
HelperOutcomes ==
  { [ok |-> FALSE, out |-> <<>>, stderr |-> <<"fatal">>],
    [ok |-> TRUE, out |-> <<>>, stderr |-> <<>>],
    [ok |-> TRUE, out |-> <<"password", "=", "\n">>, stderr |-> <<>>],
    [ok |-> TRUE, out |-> <<"password", "=", "\n", "password", "=", "p", "\n">>, stderr |-> <<>>],
    [ok |-> TRUE,
     out |-> <<"username", "=", "api-key", "\n", " ", "password", "=", "p", "\r", "\n">>,
     stderr |-> <<>>] }

\* Texts a model may answer with, for sanitizeCommitMessage on its own.
MessageAlphabet == { "x", " ", "\n", "\r", "\t" } \cup { Backtick }
RawMessages ==
  SeqsUpTo(MaxMsgLen, MessageAlphabet)
  \cup { Fence \o b \o Fence : b \in SeqsUpTo(MaxBodyLen, MessageAlphabet) }

\* Outputs of `git diff --cached`, and texts on standard input.
Diffs == SeqsUpTo(MaxDiffLen, {"d", " "})

\* Contents the model may answer with.
Completions ==
  { <<>>, <<" ", "\n">>, <<"x">>, <<"x", "\n", "\n">>, <<"\n", "x", "\r", "\n", "x", "\r", "\n">>,
    Fence \o <<"x", "\n">> \o Fence, Fence \o <<"\n">> \o Fence \o <<"\n">>,
    <<"x", " ">> \o Fence }

Statuses == {"199", "200", "300", "500"}

JsonBody(hasError, errorMessage, choices) ==
  [json |-> "complete", hasError |-> hasError, errorMessage |-> errorMessage,
   choices |-> choices, text |-> <<"{", "}">>]

\* Bodies a server may send in full.
FullBodies ==
  { JsonBody(FALSE, <<>>, <<c>>) : c \in Completions }
  \cup { JsonBody(FALSE, <<>>, <<>>), JsonBody(FALSE, <<>>, <<<<"x">>, <<"y">>>>),
         JsonBody(TRUE, <<"boom">>, <<>>), JsonBody(TRUE, <<"boom">>, <<<<"x">>>>),
         JsonBody(TRUE, <<>>, <<<<"x">>>>) }
  \cup { [NoBody EXCEPT !.text = t] : t \in {<<>>, <<" ", "oops", "\n">>} }

\* What has been read of a body when the read stops before its end: nothing,
\* a part of it, or, when only trailing white space is missing, the whole
\* JSON document.
PartsOf(full) ==
  IF full.json = "complete"
  THEN { NoBody, [NoBody EXCEPT !.json = "partial", !.text = <<"{">>], full }
  ELSE { [NoBody EXCEPT !.text = SubSeq(full.text, 1, n)] : n \in 0..(Len(full.text) - 1) }

\* Endpoint texts: an origin, a path of at most MaxSegs segments, a tail.
Origins ==
  { <<"https", ":", "/", "/", "h">>, <<"http", ":", "/", "/", "h", ":", "8080">>,
    <<"https", ":", "/", "/", "h", ":", "a">>, <<>> }

PathSegs == { <<>>, <<"v1">>, <<"chat">>, <<"completions">>, <<"a">>, <<"..">> }

RECURSIVE SlashPath(_, _, _)
SlashPath(segs, i, acc) ==
  IF i > Len(segs) THEN acc ELSE SlashPath(segs, i + 1, acc \o <<"/">> \o segs[i])

UrlPaths == { SlashPath(segs, 1, <<>>) : segs \in SeqsUpTo(MaxSegs, PathSegs) }

UrlTails == { <<>>, <<"?">>, <<"?", "q", "=", "a">>, <<"#", "f">> }

Endpoints == { o \o p \o t : o \in Origins, p \in UrlPaths, t \in UrlTails }

\* Raw values of ai-commit.apiKey, and the endpoints a key is resolved for.
KeyAlphabet == { "$", "git", "Git", "-", "credentials", "CREDENTIALS", "sk" }

RawKeys == SeqsUpTo(MaxKeyLen, KeyAlphabet)

KeyEndpoints ==
  { <<"https", ":", "/", "/", "h", ":", "8080", "/", "v1", "/", "chat", "/", "completions">>,
    <<"/", "v1", "/", "chat", "/", "completions">>,
    <<"https", ":", "/", "/", "/", "v1", "/", "chat", "/", "completions">>,
    <<"https", ":", "/", "/", "h", ":", "a", "/", "v1">> }

\* Values of the environment variable a key names: unset or empty, and set.
KeyEnvValues == { <<>>, <<"e">>, <<" ", "e", "\n">> }

\* ------------------------------------------------------------------------
\* State
\* ------------------------------------------------------------------------
VARIABLES
  argv,      \* the command line
  pc,        \* where the run is
  msgFile,   \* the commit-message file on disk
  hookFile,  \* .git/hooks/prepare-commit-msg on disk
  existing,  \* runPrepareCommitMsg: the text read from the commit-message file
  cfg,       \* the resolved configuration
  diff,      \* the diff text handed to buildPrompt
  status,    \* the response's status code, "" before the headers
  body,      \* the response body as read
  bodyErr,   \* why the body read stopped early: "" or "deadline"
  ret,       \* the error the run function returned
  stderr,    \* the errors printed to standard error
  stdout,    \* the text printed to standard output
  exitCode,  \* the exit code, -1 while running
  log,       \* the external calls made, in order
  norm,      \* endpoint normalization on its own: input and results
  key,       \* key resolution on its own: input and result
  san,       \* sanitizeCommitMessage on its own: input and result
  conf,      \* readConfig on its own: the settings and the result
  diffOut    \* what `git diff --cached` printed, or what was read from stdin

vars == <<argv, pc, msgFile, hookFile, existing, cfg, diff, status, body, bodyErr,
          ret, stderr, stdout, exitCode, log, norm, key, san, conf, diffOut>>

runVars == <<argv, pc, msgFile, hookFile, existing, cfg, diff, status, body, bodyErr,
             ret, stderr, stdout, exitCode, log, diffOut>>

NormIdle == [phase |-> "idle", raw |-> <<>>, once |-> <<>>, twice |-> <<>>,
             err |-> FALSE, err2 |-> FALSE]
ConfIdle == [phase |-> "idle", store |-> Store(Unset, Unset, Unset, Unset, Unset),
             envValue |-> <<>>, helper |-> [ok |-> FALSE, out |-> <<>>, stderr |-> <<>>],
             result |-> [cfg |-> NoConfig, err |-> NoErr, calls |-> <<>>]]
SanIdle == [phase |-> "idle", raw |-> <<>>, out |-> <<>>]
KeyIdle == [phase |-> "idle", raw |-> <<>>, endpoint |-> <<>>, envValue |-> <<>>,
            helper |-> [ok |-> FALSE, out |-> <<>>, stderr |-> <<>>], result |-> NoKey]

\* The process at its start: nothing read, nothing printed.
ProcessStart ==
  /\ pc = "main"
  /\ existing = <<>>
  /\ cfg = NoConfig
  /\ diff = <<>>
  /\ status = ""
  /\ body = NoBody
  /\ bodyErr = ""
  /\ ret = NoErr
  /\ stderr = <<>>
  /\ stdout = <<>>
  /\ exitCode = -1
  /\ log = <<>>
  /\ diffOut = <<>>

Init ==
  /\ argv \in ArgvSet
  /\ msgFile \in (IF Command(argv) = "hook" THEN MsgFiles ELSE {NoFile})
  /\ hookFile \in (IF Command(argv) = "install" THEN HookFiles ELSE {NoFile})
  /\ ProcessStart
  /\ norm = NormIdle
  /\ key = KeyIdle
  /\ san = SanIdle
  /\ conf = ConfIdle

\* os.Exit(code) after printing e, if any, to standard error.
Exit(code, e) ==
  /\ pc' = "exit"
  /\ exitCode' = code
  /\ stderr' = IF e = NoErr THEN stderr ELSE Append(stderr, e)

\* The run function returns e to main, which prints it and exits.
Return(e) ==
  /\ ret' = e
  /\ Exit(ExitCode(Command(argv), e), e)

\* The run goes on at next.
Continue(next) ==
  /\ pc' = next
  /\ UNCHANGED <<ret, stderr, exitCode>>

\* ------------------------------------------------------------------------
\* main
\* ------------------------------------------------------------------------
\* What main does with a command line: the run function it calls (next), or
\* the exit code, the error printed and the text printed.
mainDispatch(args) ==
  LET exit(code, e, out) == [next |-> "exit", code |-> code, err |-> e, out |-> out]
      call(f) == [next |-> f, code |-> -1, err |-> NoErr, out |-> <<>>]
      command == Command(args)
  IN IF Len(args) < 1 THEN exit(2, Err("usage", <<>>), <<>>)
     ELSE IF command \in {"version", "--version", "-v"} THEN exit(0, NoErr, <<"version">>)
     ELSE IF command = "hook"
          THEN IF Len(args) < 2 THEN exit(2, Err("usage", <<>>), <<>>)
               ELSE IF args[2] # "prepare-commit-msg"
                    THEN exit(2, Err("unsupported hook", <<args[2]>>), <<>>)
               ELSE call("runPrepareCommitMsg")
     ELSE IF command = "show" THEN call("runShow")
     ELSE IF command = "config" THEN call("runConfig")
     ELSE IF command = "install" THEN call("runInstall")
     ELSE IF command \in {"--help", "-h", "help"} THEN exit(0, NoErr, <<"usage">>)
     ELSE exit(2, Err("unknown command", <<command>>), <<>>)

Main ==
  /\ pc = "main"
  /\ \E d \in {mainDispatch(argv)} :
       IF d.next = "exit"
       THEN /\ Exit(d.code, d.err)
            /\ stdout' = stdout \o d.out
            /\ UNCHANGED ret
       ELSE /\ Continue(d.next)
            /\ UNCHANGED stdout
  /\ UNCHANGED <<argv, msgFile, hookFile, existing, cfg, diff, status, body, bodyErr,
                 log, norm, key, san, conf, diffOut>>

\* ------------------------------------------------------------------------
\* runPrepareCommitMsg, up to the decision to generate a message
\* ------------------------------------------------------------------------
HookArgs == SubSeq(argv, 3, Len(argv))
Source == IF Len(HookArgs) >= 2 THEN HookArgs[2] ELSE ""

\* A plausible slip: the file is read before the source is looked at.
HookStart_ReadsBeforeSkip ==
  /\ pc = "runPrepareCommitMsg"
  /\ IF Len(HookArgs) < 1
     THEN /\ Return(Err("prepare-commit-msg requires <commit-msg-file>", <<>>))
          /\ UNCHANGED <<existing, log>>
     ELSE /\ log' = Append(log, "read file")
          /\ IF ~msgFile.exists
             THEN /\ Return(Err("read commit message file", <<HookArgs[1]>>))
                  /\ UNCHANGED existing
             ELSE /\ existing' = msgFile.content
                  /\ IF Source \in {"merge", "squash"} \/ hasNonCommentContent(msgFile.content)
                     THEN Return(NoErr)
                     ELSE Continue("readConfig")
  /\ UNCHANGED <<argv, msgFile, hookFile, cfg, diff, status, body, bodyErr, stdout,
                 norm, key, san, conf, diffOut>>

\* A plausible slip: a missing file is read as an empty one.
HookStart_MissingFileIsEmpty ==
  /\ pc = "runPrepareCommitMsg"
  /\ IF Len(HookArgs) < 1
     THEN /\ Return(Err("prepare-commit-msg requires <commit-msg-file>", <<>>))
          /\ UNCHANGED <<existing, log>>
     ELSE IF Source \in {"merge", "squash"}
     THEN /\ Return(NoErr)
          /\ UNCHANGED <<existing, log>>
     ELSE /\ log' = Append(log, "read file")
          /\ existing' = msgFile.content
          /\ IF hasNonCommentContent(msgFile.content)
             THEN Return(NoErr)
             ELSE Continue("readConfig")
  /\ UNCHANGED <<argv, msgFile, hookFile, cfg, diff, status, body, bodyErr, stdout,
                 norm, key, san, conf, diffOut>>

HookStart ==
  /\ pc = "runPrepareCommitMsg"
  /\ IF Len(HookArgs) < 1
     THEN /\ Return(Err("prepare-commit-msg requires <commit-msg-file>", <<>>))
          /\ UNCHANGED <<existing, log>>
     ELSE IF Source \in {"merge", "squash"}
     THEN /\ Return(NoErr)
          /\ UNCHANGED <<existing, log>>
     ELSE /\ log' = Append(log, "read file")
          /\ IF ~msgFile.exists
             THEN /\ Return(Err("read commit message file", <<HookArgs[1]>>))
                  /\ UNCHANGED existing
             ELSE /\ existing' = msgFile.content
                  /\ IF hasNonCommentContent(msgFile.content)
                     THEN Return(NoErr)
                     ELSE Continue("readConfig")
  /\ UNCHANGED <<argv, msgFile, hookFile, cfg, diff, status, body, bodyErr, stdout,
                 norm, key, san, conf, diffOut>>

\* ------------------------------------------------------------------------
\* runShow, up to readConfig
\* ------------------------------------------------------------------------
ShowArgs == SubSeq(argv, 2, Len(argv))
UseStdin == \E i \in 1..Len(ShowArgs) : ShowArgs[i] = "--stdin"

ShowStart ==
  /\ pc = "runShow"
  /\ IF \E i \in 1..Len(ShowArgs) : ShowArgs[i] # "--stdin"
     THEN Return(Err("unknown flag",
                     <<ShowArgs[CHOOSE i \in 1..Len(ShowArgs) :
                                  /\ ShowArgs[i] # "--stdin"
                                  /\ \A j \in 1..(i - 1) : ShowArgs[j] = "--stdin"]>>))
     ELSE Continue("readConfig")
  /\ UNCHANGED <<argv, msgFile, hookFile, existing, cfg, diff, status, body, bodyErr,
                 stdout, log, norm, key, san, conf, diffOut>>

\* ------------------------------------------------------------------------
\* readConfig, called by both
\* ------------------------------------------------------------------------
ReadConfig ==
  /\ pc = "readConfig"
  /\ \E store \in Stores, envValue \in EnvValues, helper \in HelperOutcomes :
       \E r \in {readConfig(store, envValue, helper)} :
         /\ cfg' = r.cfg
         /\ log' = log \o r.calls
         /\ IF r.err # NoErr THEN Return(r.err) ELSE Continue("diff")
  /\ UNCHANGED <<argv, msgFile, hookFile, existing, diff, status, body, bodyErr,
                 stdout, norm, key, san, conf, diffOut>>

\* ------------------------------------------------------------------------
\* The diff
\* ------------------------------------------------------------------------
\* A plausible slip: the diff is not trimmed before the test for emptiness.
HookDiff_OnlyEmptyIsBlank ==
  /\ pc = "diff"
  /\ Command(argv) = "hook"
  /\ log' = Append(log, "git diff")
  /\ \/ /\ Return(Err("git diff --cached failed", <<>>))
        /\ UNCHANGED <<diff, diffOut>>
     \/ \E out \in Diffs :
          /\ diffOut' = out
          /\ diff' = getStagedDiff(cfg.MaxDiffBytes, out)
          /\ IF diff' = <<>> THEN Return(NoErr) ELSE Continue("call")
  /\ UNCHANGED <<argv, msgFile, hookFile, existing, cfg, status, body, bodyErr,
                 stdout, norm, key, san, conf>>

HookDiff ==
  /\ pc = "diff"
  /\ Command(argv) = "hook"
  /\ log' = Append(log, "git diff")
  /\ \/ /\ Return(Err("git diff --cached failed", <<>>))
        /\ UNCHANGED <<diff, diffOut>>
     \/ \E out \in Diffs :
          /\ diffOut' = out
          /\ diff' = getStagedDiff(cfg.MaxDiffBytes, out)
          /\ IF TrimSpace(diff') = <<>> THEN Return(NoErr) ELSE Continue("call")
  /\ UNCHANGED <<argv, msgFile, hookFile, existing, cfg, status, body, bodyErr,
                 stdout, norm, key, san, conf>>

ShowDiff ==
  /\ pc = "diff"
  /\ Command(argv) = "show"
  /\ IF UseStdin
     THEN /\ log' = Append(log, "read stdin")
          /\ \/ /\ Return(Err("read stdin", <<>>))
                /\ UNCHANGED <<diff, diffOut>>
             \/ \E text \in Diffs :
                  /\ diffOut' = text
                  /\ diff' = text
                  /\ IF TrimSpace(diff') = <<>>
                     THEN Return(Err("no diff content", <<>>))
                     ELSE Continue("call")
     ELSE /\ log' = Append(log, "git diff")
          /\ \/ /\ Return(Err("git diff --cached failed", <<>>))
                /\ UNCHANGED <<diff, diffOut>>
             \/ \E out \in Diffs :
                  /\ diffOut' = out
                  /\ diff' = getStagedDiff(cfg.MaxDiffBytes, out)
                  /\ IF TrimSpace(diff') = <<>>
                     THEN Return(Err("no diff content", <<>>))
                     ELSE Continue("call")
  /\ UNCHANGED <<argv, msgFile, hookFile, existing, cfg, status, body, bodyErr,
                 stdout, norm, key, san, conf>>

\* ------------------------------------------------------------------------
\* callChatCompletions: the request in flight
\* ------------------------------------------------------------------------
\* The request is built and handed to the HTTP client; the deadline of
\* TimeoutSeconds runs from here.  runShow first prints what it queries.
HttpSend ==
  /\ pc = "call"
  /\ log' = Append(log, "http request")
  /\ pc' = "inflight"
  /\ stderr' = IF Command(argv) = "show"
                THEN Append(stderr, [kind |-> "Querying", about |-> cfg.Endpoint \o cfg.Model])
                ELSE stderr
  /\ UNCHANGED <<argv, msgFile, hookFile, existing, cfg, diff, status, body, bodyErr,
                 ret, exitCode, stdout, norm, key, san, conf, diffOut>>

\* A plausible slip: a failed request is sent once more.
HttpFail_Retry ==
  /\ pc = "inflight"
  /\ IF Count(log, "http request") < 2
     THEN Continue("call")
     ELSE Return(Err("LLM request failed", <<"network">>))
  /\ UNCHANGED <<argv, msgFile, hookFile, existing, cfg, diff, status, body, bodyErr,
                 stdout, log, norm, key, san, conf, diffOut>>

\* client.Do fails before any response: the network, or the deadline.
HttpFail ==
  /\ pc = "inflight"
  /\ \E cause \in {"network", "deadline"} :
       Return(Err("LLM request failed", <<cause>>))
  /\ UNCHANGED <<argv, msgFile, hookFile, existing, cfg, diff, status, body, bodyErr,
                 stdout, log, norm, key, san, conf, diffOut>>

\* client.Do returns the response: status line and headers have arrived.
HttpHeaders ==
  /\ pc = "inflight"
  /\ \E st \in Statuses : status' = st
  /\ Continue("body")
  /\ UNCHANGED <<argv, msgFile, hookFile, existing, cfg, diff, body, bodyErr,
                 stdout, log, norm, key, san, conf, diffOut>>

\* io.ReadAll of the body: to its end, or until the deadline stops it;
\* ReadAll's error is dropped and what was read kept.
ReadBody ==
  /\ pc = "body"
  /\ \E full \in FullBodies, stop \in {"", "deadline"} :
       /\ bodyErr' = stop
       /\ IF stop = "" THEN body' = full ELSE body' \in PartsOf(full)
  /\ Continue("parse")
  /\ UNCHANGED <<argv, msgFile, hookFile, existing, cfg, diff, status,
                 stdout, log, norm, key, san, conf, diffOut>>

\* ------------------------------------------------------------------------
\* After the body: the completion's result and what the caller does with it
\* ------------------------------------------------------------------------
HookFinish ==
  /\ pc = "parse"
  /\ Command(argv) = "hook"
  /\ \E o \in {hookOutcome(completionResult(status, body), existing)} :
       IF ~o.write
       THEN /\ Return(o.err)
            /\ UNCHANGED <<msgFile, log>>
       ELSE /\ log' = Append(log, "write file")
            /\ \/ /\ msgFile' = File(o.newBody)
                  /\ Return(NoErr)
               \/ /\ msgFile' \in {msgFile}
                       \cup {File(SubSeq(o.newBody, 1, n)) : n \in 0..(Len(o.newBody) - 1)}
                  /\ Return(Err("write commit message file", <<HookArgs[1]>>))
  /\ UNCHANGED <<argv, hookFile, existing, cfg, diff, status, body, bodyErr,
                 stdout, norm, key, san, conf, diffOut>>

ShowFinish ==
  /\ pc = "parse"
  /\ Command(argv) = "show"
  /\ \E call \in {completionResult(status, body)} :
       IF call.err # NoErr
       THEN Return(call.err) /\ UNCHANGED stdout
       ELSE \E message \in {sanitizeCommitMessage(call.msg)} :
              IF message = <<>>
              THEN Return(Err("LLM returned empty commit message", <<>>)) /\ UNCHANGED stdout
              ELSE Return(NoErr) /\ stdout' = stdout \o message
  /\ UNCHANGED <<argv, msgFile, hookFile, existing, cfg, diff, status, body, bodyErr,
                 log, norm, key, san, conf, diffOut>>

\* ------------------------------------------------------------------------
\* config and install
\* ------------------------------------------------------------------------
RunConfig ==
  /\ pc = "runConfig"
  /\ \E e \in {runConfig(SubSeq(argv, 2, Len(argv)))} :
       /\ Return(e)
       /\ stdout' = IF e = NoErr THEN stdout \o <<"git config commands">> ELSE stdout
  /\ UNCHANGED <<argv, msgFile, hookFile, existing, cfg, diff, status, body, bodyErr,
                 log, norm, key, san, conf, diffOut>>

\* A plausible slip: a hook that does not mention git-ai-commit is replaced.
RunInstall_ReplacesForeignHook ==
  /\ pc = "runInstall"
  /\ \/ /\ log' = Append(log, "git rev-parse")
        /\ Return(Err("not inside a Git repository", <<>>))
        /\ UNCHANGED <<hookFile, stdout>>
     \/ /\ log' = log \o <<"git rev-parse", "mkdir hooks">>
        /\ stdout' = stdout \o <<"directories">>
        /\ Return(Err("create hooks directory", <<>>))
        /\ UNCHANGED hookFile
     \/ /\ log' = log \o <<"git rev-parse", "mkdir hooks", "stat hook">>
        /\ stdout' = stdout \o <<"directories">>
        /\ Return(Err("stat hook file", <<>>))
        /\ UNCHANGED hookFile
     \/ /\ hookFile.exists
        /\ \E readable \in BOOLEAN :
             /\ log' = log \o <<"git rev-parse", "mkdir hooks", "stat hook", "read hook">>
                           \o (IF readable THEN <<>> ELSE <<"read failed">>)
             /\ IF readable /\ Contains(hookFile.content, "git-ai-commit")
                THEN /\ stdout' = stdout \o <<"directories", "already installed">>
                     /\ Return(NoErr)
                     /\ UNCHANGED hookFile
                ELSE /\ stdout' = stdout \o <<"directories", "installed">>
                     /\ hookFile' = File(HookContent)
                     /\ Return(NoErr)
     \/ /\ ~hookFile.exists
        /\ log' = log \o <<"git rev-parse", "mkdir hooks", "stat hook", "write hook">>
        /\ \/ /\ hookFile' = File(HookContent)
              /\ stdout' = stdout \o <<"directories", "installed">>
              /\ Return(NoErr)
           \/ /\ hookFile' \in {hookFile, File(<<>>)}
              /\ stdout' = stdout \o <<"directories">>
              /\ Return(Err("write hook file", <<>>))
  /\ UNCHANGED <<argv, msgFile, existing, cfg, diff, status, body, bodyErr, norm, key, san, conf, diffOut>>

RunInstall ==
  /\ pc = "runInstall"
  /\ \/ /\ log' = Append(log, "git rev-parse")
        /\ Return(Err("not inside a Git repository", <<>>))
        /\ UNCHANGED <<hookFile, stdout>>
     \/ /\ log' = log \o <<"git rev-parse", "mkdir hooks">>
        /\ stdout' = stdout \o <<"directories">>
        /\ Return(Err("create hooks directory", <<>>))
        /\ UNCHANGED hookFile
     \/ /\ log' = log \o <<"git rev-parse", "mkdir hooks", "stat hook">>
        /\ stdout' = stdout \o <<"directories">>
        /\ Return(Err("stat hook file", <<>>))
        /\ UNCHANGED hookFile
     \/ /\ hookFile.exists
        /\ \E readable \in BOOLEAN :
             /\ log' = log \o <<"git rev-parse", "mkdir hooks", "stat hook", "read hook">>
                           \o (IF readable THEN <<>> ELSE <<"read failed">>)
             /\ IF readable /\ Contains(hookFile.content, "git-ai-commit")
                THEN /\ stdout' = stdout \o <<"directories", "already installed">>
                     /\ Return(NoErr)
                ELSE /\ stdout' = stdout \o <<"directories">>
                     /\ Return(Err("hook file already exists", HookLine))
        /\ UNCHANGED hookFile
     \/ /\ ~hookFile.exists
        /\ log' = log \o <<"git rev-parse", "mkdir hooks", "stat hook", "write hook">>
        /\ \/ /\ hookFile' = File(HookContent)
              /\ stdout' = stdout \o <<"directories", "installed">>
              /\ Return(NoErr)
           \/ /\ hookFile' \in {hookFile, File(<<>>)}
              /\ stdout' = stdout \o <<"directories">>
              /\ Return(Err("write hook file", <<>>))
  /\ UNCHANGED <<argv, msgFile, existing, cfg, diff, status, body, bodyErr, norm, key, san, conf, diffOut>>

Next ==
  \/ Main
  \/ HookStart
  \/ ShowStart
  \/ ReadConfig
  \/ HookDiff
  \/ ShowDiff
  \/ HttpSend
  \/ HttpFail
  \/ HttpHeaders
  \/ ReadBody
  \/ HookFinish
  \/ ShowFinish
  \/ RunConfig
  \/ RunInstall

Spec == Init /\ [][Next]_vars

\* ------------------------------------------------------------------------
\* ResolveChatCompletionsEndpoint on its own: applied once, then to its result
\* ------------------------------------------------------------------------
InitNorm ==
  /\ argv = <<>>
  /\ msgFile = NoFile
  /\ hookFile = NoFile
  /\ ProcessStart
  /\ norm \in {[NormIdle EXCEPT !.phase = "input", !.raw = raw] : raw \in Endpoints}
  /\ key = KeyIdle
  /\ san = SanIdle
  /\ conf = ConfIdle

Normalize ==
  /\ norm.phase = "input"
  /\ \E r \in {ResolveChatCompletionsEndpoint(norm.raw)} :
       norm' = [norm EXCEPT !.phase = "once", !.once = r.url, !.err = r.err]
  /\ UNCHANGED <<runVars, key, san, conf>>

Renormalize ==
  /\ norm.phase = "once"
  /\ ~norm.err
  /\ \E r \in {ResolveChatCompletionsEndpoint(norm.once)} :
       norm' = [norm EXCEPT !.phase = "twice", !.twice = r.url, !.err2 = r.err]
  /\ UNCHANGED <<runVars, key, san, conf>>

NextNorm ==
  \/ Normalize
  \/ Renormalize

SpecNorm == InitNorm /\ [][NextNorm]_vars

\* ------------------------------------------------------------------------
\* resolveAPIKey on its own
\* ------------------------------------------------------------------------
InitKey ==
  /\ argv = <<>>
  /\ msgFile = NoFile
  /\ hookFile = NoFile
  /\ ProcessStart
  /\ norm = NormIdle
  /\ key \in {[KeyIdle EXCEPT !.phase = "input", !.raw = raw, !.endpoint = endpoint,
                              !.envValue = envValue, !.helper = helper] :
                raw \in RawKeys, endpoint \in KeyEndpoints, envValue \in KeyEnvValues,
                helper \in HelperOutcomes}
  /\ san = SanIdle
  /\ conf = ConfIdle

ResolveKey ==
  /\ key.phase = "input"
  /\ \E r \in {resolveAPIKey(key.raw, key.endpoint, key.envValue, key.helper)} :
       key' = [key EXCEPT !.phase = "done", !.result = r]
  /\ UNCHANGED <<runVars, norm, san, conf>>

NextKey == ResolveKey

SpecKey == InitKey /\ [][NextKey]_vars

\* ------------------------------------------------------------------------
\* readConfig on its own
\* ------------------------------------------------------------------------
InitConf ==
  /\ argv = <<>>
  /\ msgFile = NoFile
  /\ hookFile = NoFile
  /\ ProcessStart
  /\ norm = NormIdle
  /\ key = KeyIdle
  /\ san = SanIdle
  /\ conf \in {[ConfIdle EXCEPT !.phase = "input", !.store = store,
                                !.envValue = envValue, !.helper = helper] :
                 store \in Stores, envValue \in EnvValues, helper \in HelperOutcomes}

ResolveConfig ==
  /\ conf.phase = "input"
  /\ \E r \in {readConfig(conf.store, conf.envValue, conf.helper)} :
       conf' = [conf EXCEPT !.phase = "done", !.result = r]
  /\ UNCHANGED <<runVars, norm, key, san>>

NextConf == ResolveConfig

SpecConf == InitConf /\ [][NextConf]_vars

\* ------------------------------------------------------------------------
\* sanitizeCommitMessage on its own
\* ------------------------------------------------------------------------
InitSan ==
  /\ argv = <<>>
  /\ msgFile = NoFile
  /\ hookFile = NoFile
  /\ ProcessStart
  /\ norm = NormIdle
  /\ key = KeyIdle
  /\ conf = ConfIdle
  /\ san \in {[SanIdle EXCEPT !.phase = "input", !.raw = raw] : raw \in RawMessages}

Sanitize ==
  /\ san.phase = "input"
  /\ \E r \in {sanitizeCommitMessage(san.raw)} :
       san' = [san EXCEPT !.phase = "done", !.out = r]
  /\ UNCHANGED <<runVars, norm, key, conf>>

NextSan == Sanitize

SpecSan == InitSan /\ [][NextSan]_vars

\* ------------------------------------------------------------------------
\* Properties
\* ------------------------------------------------------------------------
IsHookRun == Command(argv) = "hook"

\* main reached runPrepareCommitMsg.
IsPrepareCommitMsg == IsHookRun /\ Len(argv) >= 2 /\ argv[2] = "prepare-commit-msg"

Blank(s) == \A i \in 1..Len(s) : IsSpace(s[i])

\* Some line of text has a first non-blank character other than "#".
MeaningfulLine(text) ==
  \E i \in 1..Len(text) :
    /\ ~IsSpace(text[i])
    /\ text[i] # "#"
    /\ \A j \in 1..(i - 1) : (\A k \in j..(i - 1) : text[k] # "\n") => IsSpace(text[j])

\* The response is a 2xx with a JSON document that has no error and a choice.
CompletionSucceeded ==
  /\ status = "200"
  /\ body.json = "complete"
  /\ ~(body.hasError /\ body.errorMessage # <<>>)
  /\ Len(body.choices) > 0

\* C1 (as the code has it): when runPrepareCommitMsg returns an error, main
\* prints it to standard error and exits 0; a `hook` command line with no
\* hook name or an unsupported one exits 2 with a message on standard
\* error; a failing show, config or install prints its error and exits 1.
C1_ExitCodes ==
  pc = "exit" =>
    /\ (IsHookRun /\ ret # NoErr) => (exitCode = 0 /\ stderr = <<ret>>)
    /\ (IsHookRun /\ ~IsPrepareCommitMsg) => (exitCode = 2 /\ stderr # <<>>)
    /\ (Command(argv) \in {"show", "config", "install"} /\ ret # NoErr)
         => (exitCode = 1 /\ stderr # <<>> /\ stderr[Len(stderr)] = ret)

\* C1 as stated: every `hook` invocation that prints an error exits 0, and
\* every failing show, config or install exits non-zero.
C1_EveryHookFailureExitsZero ==
  pc = "exit" =>
    /\ (IsHookRun /\ stderr # <<>>) => exitCode = 0
    /\ (Command(argv) \in {"show", "config", "install"} /\ ret # NoErr) => exitCode # 0

C1_Witness ==
  /\ pc = "exit"
  /\ IsPrepareCommitMsg
  /\ ret.kind = "LLM request failed"
  /\ stderr = <<ret>>
  /\ exitCode = 0

\* C2: while the commit-message file holds a line that is neither blank nor
\* a "#" comment, a hook run leaves the file as it is, makes no call other
\* than reading the file, and ends without going on to readConfig.
C2_MeaningfulContentIsNoOp ==
  [][(IsHookRun /\ msgFile.exists /\ MeaningfulLine(msgFile.content))
       => /\ msgFile' = msgFile
          /\ log' \in {log, <<"read file">>}
          /\ pc' \in {"runPrepareCommitMsg", "exit"}
          /\ (pc' = "exit" /\ IsPrepareCommitMsg /\ log' # <<>>) => (ret' = NoErr /\ exitCode' = 0)]_vars

C2_Witness ==
  /\ pc = "exit"
  /\ IsPrepareCommitMsg
  /\ msgFile = File(<<"\n", "x">>)
  /\ existing = <<"\n", "x">>
  /\ log = <<"read file">>
  /\ ret = NoErr

\* C3: after a hook run that wrote the file, the file holds the sanitized
\* message, which ends in exactly one newline, followed, when the text read
\* from the file is not blank, by one empty line and that text, and by
\* nothing when it is blank.
C3_WrittenText ==
  (pc = "exit" /\ IsHookRun /\ ret = NoErr /\ Contains(log, "write file")) =>
    \E g \in {sanitizeCommitMessage(body.choices[1])} :
      /\ g # <<>>
      /\ g[Len(g)] = "\n"
      /\ Len(g) >= 2 => g[Len(g) - 1] # "\n"
      /\ msgFile = File(IF Blank(existing) THEN g ELSE g \o <<"\n">> \o existing)

C3_Witness ==
  /\ pc = "exit"
  /\ ret = NoErr
  /\ existing = <<"#", "\n">>
  /\ msgFile = File(<<"x", "\n", "\n", "#", "\n">>)

\* C4: a step changes or writes the commit-message file only as the last
\* step of a run whose completion call succeeded with a message that is not
\* empty once sanitized; when the sanitized message is empty the run returns
\* the empty-message error without writing; a step that returns any error
\* other than the write error leaves the file as it is.
C4_WriteOnlyAfterMessage ==
  [][/\ (msgFile' # msgFile \/ Count(log', "write file") # Count(log, "write file"))
          => /\ log' = Append(log, "write file")
             /\ ~Contains(log, "write file")
             /\ pc' = "exit"
             /\ CompletionSucceeded
             /\ sanitizeCommitMessage(body.choices[1]) # <<>>
     /\ (pc = "parse" /\ IsHookRun /\ CompletionSucceeded
           /\ sanitizeCommitMessage(body.choices[1]) = <<>>)
          => /\ ret' = Err("LLM returned empty commit message", <<>>)
             /\ msgFile' = msgFile
             /\ log' = log
     /\ (ret' # NoErr /\ ret'.kind # "write commit message file") => msgFile' = msgFile]_vars

C4_Witness ==
  /\ pc = "exit"
  /\ IsHookRun
  /\ CompletionSucceeded
  /\ body.choices[1] = Fence \o <<"\n">> \o Fence \o <<"\n">>
  /\ ret = Err("LLM returned empty commit message", <<>>)
  /\ msgFile = File(existing)

\* C5: no step creates or deletes the commit-message file; a step changes
\* it only after the same run has read it; and when the file does not
\* exist, the read fails and the run ends there with the read error.
C5_NeverCreatesOrDeletes ==
  [][/\ msgFile'.exists = msgFile.exists
     /\ msgFile' # msgFile => (Contains(log, "read file") /\ existing = msgFile.content)
     /\ (IsHookRun /\ ~msgFile.exists /\ log' # log)
          => /\ log' = <<"read file">>
             /\ pc' = "exit"
             /\ ret'.kind = "read commit message file"]_vars

C5_Witness ==
  /\ pc = "exit"
  /\ IsPrepareCommitMsg
  /\ ~msgFile.exists
  /\ log = <<"read file">>
  /\ ret.kind = "read commit message file"

\* C6: in a run, git diff, git credential fill and the HTTP request are each
\* made at most once, and when one of them fails the run has ended with
\* that error and that call is the last call made.
C6_NoRetries ==
  /\ Count(log, "git diff") <= 1
  /\ Count(log, "credential fill") <= 1
  /\ Count(log, "http request") <= 1
  /\ ret.kind = "git diff --cached failed"
       => (pc = "exit" /\ log[Len(log)] = "git diff")
  /\ ret.kind \in {"ai-commit.apiKey: git credential fill failed",
                   "ai-commit.apiKey: git credential fill returned no password"}
       => (pc = "exit" /\ log[Len(log)] = "credential fill" /\ ~Contains(log, "git diff"))
  /\ ret.kind = "LLM request failed"
       => (pc = "exit" /\ log[Len(log)] = "http request")
  /\ (Contains(log, "http request") \/ Contains(log, "write file")) => Contains(log, "git diff") \/ Contains(log, "read stdin")

C6_Witness ==
  /\ pc = "exit"
  /\ ret.kind = "ai-commit.apiKey: git credential fill failed"
  /\ log[Len(log)] = "credential fill"

\* C7 as stated: when the deadline stops the read of the response body, the
\* run ends with the request's deadline error, and nothing of the body read
\* so far reaches the error text, the output or the file.
C7_DeadlineGivesTimeoutError ==
  (pc = "exit" /\ bodyErr = "deadline") =>
    /\ ret = Err("LLM request failed", <<"deadline">>)
    /\ stdout = <<>>
    /\ ~Contains(log, "write file")

\* The deadline expired during the read, and the error carries what was read.
C7_Witness ==
  /\ pc = "exit"
  /\ bodyErr = "deadline"
  /\ body.json = "partial"
  /\ ret = Err("parse response", body.text)

\* An endpoint text with scheme http or https and a host.
IsHttpUrl(raw) ==
  \/ HasPrefix(raw, <<"https", ":", "/", "/", "h">>)
  \/ HasPrefix(raw, <<"http", ":", "/", "/", "h">>)

\* C8: for an http or https endpoint that ResolveChatCompletionsEndpoint
\* accepts, applying it to its own result succeeds and gives that result.
C8_Idempotent ==
  (norm.phase = "twice" /\ IsHttpUrl(norm.raw)) => (~norm.err2 /\ norm.twice = norm.once)

C8_Witness ==
  /\ norm.phase = "twice"
  /\ norm.raw = <<"https", ":", "/", "/", "h", "/", "a", "/", "chat", "/", "completions", "?", "q", "=", "a">>
  /\ norm.once = <<"https", ":", "/", "/", "h", "/", "a", "/", "v1", "/", "chat", "/", "completions">>
  /\ norm.twice = norm.once

\* The text from the first "/" after the "//" of the authority on.
PathOf(url) ==
  SubSeq(url, CHOOSE i \in 5..(Len(url) + 1) :
                /\ i <= Len(url) => url[i] = "/"
                /\ \A j \in 5..(i - 1) : url[j] # "/",
         Len(url))

\* C9 as stated: for an http or https endpoint the result keeps scheme and
\* host, ends in /v1/chat/completions, and has no empty path segment, no
\* query and no fragment.
C9_CanonicalForm ==
  (norm.phase = "once" /\ IsHttpUrl(norm.raw) /\ ~norm.err) =>
    /\ IsHttpUrl(norm.once)
    /\ HasSuffix(norm.once, <<"/", "v1", "/", "chat", "/", "completions">>)
    /\ ~Contains(norm.once, "?")
    /\ ~Contains(norm.once, "#")
    /\ \A i \in 1..(Len(PathOf(norm.once)) - 1) :
         ~(PathOf(norm.once)[i] = "/" /\ PathOf(norm.once)[i + 1] = "/")

\* The "?" of an endpoint that ends in one is still there.
C9_Witness ==
  /\ norm.phase = "once"
  /\ norm.raw = <<"https", ":", "/", "/", "h", "/", "v1", "?">>
  /\ norm.once = <<"https", ":", "/", "/", "h", "/", "v1", "/", "chat", "/", "completions", "?">>

\* A raw key that is git-credentials in some letter case.
IsCredentialToken(raw) ==
  /\ Len(raw) = 3
  /\ raw[1] \in {"git", "Git", "GIT"}
  /\ raw[2] = "-"
  /\ raw[3] \in {"credentials", "Credentials", "CREDENTIALS"}

\* The endpoint has a scheme and a host, so the helper is run.
HelperIsRun == HasPrefix(key.endpoint, <<"https", ":", "/", "/", "h", ":", "8080">>)

\* C10: the empty key gives the empty key and no error, with no lookup; a
\* key that starts with "$" gives the variable's value or an error, never
\* the key itself and never a helper run; git-credentials in any letter case
\* gives what the credential lookup gives; any other key is returned as it
\* is, with no lookup.
C10_KeyPrecedence ==
  key.phase = "done" =>
    \E r \in {key.result} :
      IF key.raw = <<>>
      THEN r = NoKey
      ELSE IF key.raw[1] = "$"
      THEN /\ r.helperRuns = 0
           /\ r.key = IF Len(key.raw) > 1 THEN key.envValue ELSE <<>>
           /\ (r.err = NoErr) = (r.key # <<>>)
           /\ r.envReads = IF Len(key.raw) > 1 THEN <<Tail(key.raw)>> ELSE <<>>
      ELSE IF IsCredentialToken(key.raw)
      THEN /\ r.envReads = <<>>
           /\ r.helperRuns = IF HelperIsRun THEN 1 ELSE 0
           /\ r.key # key.raw
           /\ (r.err = NoErr) = (r.key # <<>>)
           /\ r.key # <<>> => (key.helper.ok /\ r.key = <<"p">>)
      ELSE r = [NoKey EXCEPT !.key = key.raw]

C10_Witness ==
  /\ key.phase = "done"
  /\ key.raw = <<"Git", "-", "CREDENTIALS">>
  /\ key.result.helperRuns = 1
  /\ key.result.key = <<"p">>

\* C11: for a key that starts with "$": the bare "$" gives the
\* empty-variable-name error; otherwise the rest is the variable looked up,
\* an unset or empty variable gives the error that carries that name and no
\* key, and a set variable gives its value as it is, with no error.
C11_EnvReference ==
  (key.phase = "done" /\ key.raw # <<>> /\ key.raw[1] = "$") =>
    IF Len(key.raw) = 1
    THEN /\ key.result.err = Err("environment variable name must not be empty", <<>>)
         /\ key.result.key = <<>>
         /\ key.result.envReads = <<>>
    ELSE /\ key.result.envReads = <<SubSeq(key.raw, 2, Len(key.raw))>>
         /\ IF key.envValue = <<>>
            THEN /\ key.result.err = Err("environment variable is not set or is empty",
                                         SubSeq(key.raw, 2, Len(key.raw)))
                 /\ key.result.key = <<>>
            ELSE /\ key.result.err = NoErr
                 /\ key.result.key = key.envValue

C11_Witness ==
  /\ key.phase = "done"
  /\ key.raw = <<"$", "sk">>
  /\ key.envValue = <<>>
  /\ key.result.err = Err("environment variable is not set or is empty", <<"sk">>)

\* The endpoint parses but lacks its scheme or its host.
LacksSchemeOrHost ==
  key.endpoint \in { <<"/", "v1", "/", "chat", "/", "completions">>,
                     <<"https", ":", "/", "/", "/", "v1", "/", "chat", "/", "completions">> }

\* C12: git credential fill is run, once, exactly when the key is
\* git-credentials in some letter case and the endpoint has a scheme and a
\* host; with that key and an endpoint that lacks one of them the result is
\* the no-scheme-or-host error and nothing was handed to the helper.
C12_HelperOnlyForCredentialToken ==
  key.phase = "done" =>
    /\ key.result.helperRuns = IF IsCredentialToken(key.raw) /\ HelperIsRun THEN 1 ELSE 0
    /\ key.result.helperRuns = 0 => key.result.helperInput = <<>>
    /\ (IsCredentialToken(key.raw) /\ LacksSchemeOrHost)
         => /\ key.result.err = Err("endpoint has no scheme or host", key.endpoint)
            /\ key.result.key = <<>>

C12_Witness ==
  /\ key.phase = "done"
  /\ key.raw = <<"git", "-", "credentials">>
  /\ key.endpoint = <<"https", ":", "/", "/", "/", "v1", "/", "chat", "/", "completions">>
  /\ key.result.err.kind = "endpoint has no scheme or host"
  /\ key.result.helperRuns = 0

\* The positions in out of a "password=" that starts a line, white space
\* aside.
PasswordLines(out) ==
  { i \in 1..(Len(out) - 1) :
      /\ out[i] = "password"
      /\ out[i + 1] = "="
      /\ \A j \in 1..(i - 1) : (\A k \in j..(i - 1) : out[k] # "\n") => IsSpace(out[j]) }

\* The first such line has a character other than white space after the "=".
ReturnsPassword(out) ==
  /\ PasswordLines(out) # {}
  /\ \E i \in PasswordLines(out) :
       /\ \A j \in PasswordLines(out) : i <= j
       /\ i + 2 <= Len(out)
       /\ ~IsSpace(out[i + 2])

\* C13: when the helper has run and succeeded: if the first password line
\* of its output holds a password, the key is that password; if there is no
\* such line or it is empty, the result is the no-password error carrying
\* the protocol and host that were written to the helper's input, and no
\* key.
C13_PasswordOrNotFound ==
  (key.phase = "done" /\ key.result.helperRuns = 1 /\ key.helper.ok) =>
    /\ HasPrefix(key.result.helperInput,
                 <<"protocol", "=", "https", "\n", "host", "=", "h", "\n">>)
    /\ IF ReturnsPassword(key.helper.out)
       THEN key.result.key = <<"p">> /\ key.result.err = NoErr
       ELSE /\ key.result.key = <<>>
            /\ key.result.err = Err("git credential fill returned no password",
                                    <<"https", " ", "h">>)

C13_Witness ==
  /\ key.phase = "done"
  /\ key.result.helperRuns = 1
  /\ key.helper.out = <<"password", "=", "\n", "password", "=", "p", "\n">>
  /\ key.result.err.kind = "git credential fill returned no password"

\* The diff came from `git diff --cached`, not from standard input.
StagedMode == Contains(log, "git diff")

\* C14: the diff text handed to the prompt is, in staged mode with a
\* positive limit and a longer diff, the first maxBytes bytes of git's output
\* followed by the truncation marker; in staged mode otherwise, and always in
\* stdin mode, the text as it was read.
C14_DiffHandedToPrompt ==
  IF StagedMode /\ cfg.MaxDiffBytes > 0 /\ Len(diffOut) > cfg.MaxDiffBytes
  THEN /\ Len(diff) = cfg.MaxDiffBytes + Len(TruncationMarker)
       /\ \A i \in 1..cfg.MaxDiffBytes : diff[i] = diffOut[i]
       /\ \A i \in 1..Len(TruncationMarker) :
            diff[cfg.MaxDiffBytes + i] = TruncationMarker[i]
  ELSE diff = diffOut

C14_Witness ==
  /\ pc = "call"
  /\ StagedMode
  /\ cfg.MaxDiffBytes = 1
  /\ diffOut = <<"d", " ">>
  /\ diff = <<"d", "\n", "\n", "[diff truncated]", "\n">>

\* The number ai-commit.maxDiffBytes is configured as is zero or negative.
NonPositiveSetting(setting) ==
  /\ setting.ok
  /\ TrimSpace(setting.v) \in { <<"0">>, <<"-", "1">> }

\* C15: a maxDiffBytes setting of 0 or a negative number means unlimited:
\* the limit the configuration then carries to getStagedDiff is not a
\* positive one, so no diff is truncated.
C15_NonPositiveMeansUnlimited ==
  (conf.phase = "done" /\ conf.result.err = NoErr /\ NonPositiveSetting(conf.store.maxDiffBytes))
    => conf.result.cfg.MaxDiffBytes <= 0

\* What the code does: a setting of 0 or a negative number leaves the
\* default limit in force.
C15_NonPositiveKeepsDefault ==
  (conf.phase = "done" /\ conf.result.err = NoErr /\ NonPositiveSetting(conf.store.maxDiffBytes))
    => conf.result.cfg.MaxDiffBytes = DefaultMaxDiffBytes

C15_Witness ==
  /\ conf.phase = "done"
  /\ conf.result.err = NoErr
  /\ conf.store.maxDiffBytes = Value(<<"0">>)
  /\ conf.result.cfg.MaxDiffBytes = DefaultMaxDiffBytes

\* The body as read decodes to an error envelope with a message.
HasEnvelopeMessage == body.json = "complete" /\ body.hasError /\ body.errorMessage # <<>>

\* C16: after a response whose status is outside 200-299 the run ends with
\* callChatCompletions' error and no message is written or printed; the
\* error carries the status code and then the envelope's message when the
\* body decodes to one with a non-empty message, the trimmed body text
\* otherwise.
C16_NonSuccessStatusIsError ==
  (pc = "exit" /\ status \in {"199", "300", "500"}) =>
    /\ ret.kind = "LLM HTTP"
    /\ ret.about # <<>>
    /\ ret.about[1] = status
    /\ SubSeq(ret.about, 2, Len(ret.about))
         = (IF HasEnvelopeMessage THEN body.errorMessage ELSE TrimSpace(body.text))
    /\ ~Contains(log, "write file")
    /\ stdout = <<>>

C16_Witness ==
  /\ pc = "exit"
  /\ status = "300"
  /\ body = JsonBody(TRUE, <<"boom">>, <<<<"x">>>>)
  /\ ret = Err("LLM HTTP", <<"300", "boom">>)

\* C17: after a 200 response the run has a message only when the body
\* parsed, has no error envelope message and has a choice, and what is
\* printed by `show` is then the first choice's content as the sanitizer
\* leaves it; a body with an error envelope message ends the run with that
\* error even when it has choices, and a body with no choices with the
\* missing-choices error.
C17_SuccessStatus ==
  (pc = "exit" /\ status = "200") =>
    IF body.json # "complete"
    THEN ret = Err("parse response", TrimSpace(body.text))
    ELSE IF HasEnvelopeMessage
    THEN ret = Err("LLM error", body.errorMessage)
    ELSE IF body.choices = <<>>
    THEN ret = Err("LLM response missing choices", <<>>)
    ELSE /\ ret.kind \notin {"parse response", "LLM error", "LLM response missing choices",
                             "LLM HTTP"}
         /\ Command(argv) = "show" =>
              IF sanitizeCommitMessage(body.choices[1]) = <<>>
              THEN ret = Err("LLM returned empty commit message", <<>>) /\ stdout = <<>>
              ELSE ret = NoErr /\ stdout = sanitizeCommitMessage(body.choices[1])
         /\ (IsHookRun /\ Contains(log, "write file") /\ ret = NoErr)
              => HasPrefix(msgFile.content, sanitizeCommitMessage(body.choices[1]))

C17_Witness ==
  /\ pc = "exit"
  /\ status = "200"
  /\ body = JsonBody(TRUE, <<"boom">>, <<<<"x">>>>)
  /\ ret = Err("LLM error", <<"boom">>)

\* The message with CRLF made LF, white space around it aside.
SanTrimmed == TrimSpace(ReplaceCRLF(san.raw))

\* The whole message is wrapped in a fence: it starts with one and ends with
\* another.
SanWrapped ==
  /\ Len(SanTrimmed) >= 2 * Len(Fence)
  /\ HasPrefix(SanTrimmed, Fence)
  /\ HasSuffix(SanTrimmed, Fence)

\* The text between the two fences.
SanInner == SubSeq(SanTrimmed, Len(Fence) + 1, Len(SanTrimmed) - Len(Fence))

\* C18: the output of sanitizeCommitMessage is empty, and always so for an
\* empty or white-space-only input, or it starts with a character that is
\* not white space and ends with exactly one newline; a message wrapped in
\* fences comes out as the text between them, trimmed, with one newline; an
\* input with no two carriage returns in a row comes out with no CR LF.
C18_SanitizedShape ==
  san.phase = "done" =>
    /\ Blank(san.raw) => san.out = <<>>
    /\ san.out # <<>> =>
         /\ ~IsSpace(san.out[1])
         /\ Len(san.out) >= 2
         /\ san.out[Len(san.out)] = "\n"
         /\ ~IsSpace(san.out[Len(san.out) - 1])
    /\ SanWrapped =>
         san.out = (IF Blank(SanInner) THEN <<>> ELSE TrimSpace(SanInner) \o <<"\n">>)
    /\ (\A i \in 1..(Len(san.raw) - 1) : ~(san.raw[i] = "\r" /\ san.raw[i + 1] = "\r"))
         => \A i \in 1..(Len(san.out) - 1) : ~(san.out[i] = "\r" /\ san.out[i + 1] = "\n")

C18_Witness ==
  /\ san.phase = "done"
  /\ san.raw = Fence \o <<"\n", "x">> \o Fence
  /\ san.out = <<"x", "\n">>

\* C19: `install` writes the hook file only when no file exists at its path;
\* an existing file is left as it is; when it could be read and mentions
\* git-ai-commit the command succeeds with nothing done, and otherwise it
\* fails with the error that shows the line to add by hand.  No other step
\* touches the hook file.
C19_InstallNeverOverwrites ==
  [][/\ hookFile' # hookFile
          => (pc = "runInstall" /\ ~hookFile.exists /\ Contains(log', "write hook"))
     /\ (pc = "runInstall" /\ Contains(log', "write hook")) => ~hookFile.exists
     /\ (pc = "runInstall" /\ Contains(log', "read hook")) =>
          /\ hookFile.exists
          /\ hookFile' = hookFile
          /\ pc' = "exit"
          /\ IF Contains(hookFile.content, "git-ai-commit") /\ ~Contains(log', "read failed")
             THEN /\ ret' = NoErr
                  /\ exitCode' = 0
                  /\ stdout'[Len(stdout')] = "already installed"
             ELSE /\ ret' = Err("hook file already exists", HookLine)
                  /\ exitCode' = 1
                  /\ stderr' = Append(stderr, ret')]_vars

C19_Witness ==
  /\ pc = "exit"
  /\ Command(argv) = "install"
  /\ hookFile = File(<<"#!/bin/sh", "\n", "make lint", "\n">>)
  /\ ret = Err("hook file already exists", HookLine)
  /\ exitCode = 1

\* ai-commit.endpoint is unset, or set to nothing but white space.
EndpointAbsent == ~conf.store.endpoint.ok \/ Blank(conf.store.endpoint.v)

\* C20: ai-commit.endpoint is required: when it is unset or blank, readConfig
\* fails with the missing-configuration error, before anything else is
\* resolved.
C20_EndpointRequired ==
  (conf.phase = "done" /\ EndpointAbsent) =>
    /\ conf.result.err = Err("missing git config: ai-commit.endpoint", <<>>)
    /\ conf.result.calls = <<"config endpoint", "config model">>

\* What the code does: an unset or blank endpoint is the default one, and
\* the missing-configuration error is never returned.
C20_AbsentEndpointIsDefault ==
  conf.phase = "done" =>
    /\ conf.result.err.kind # "missing git config: ai-commit.endpoint"
    /\ EndpointAbsent =>
         /\ conf.result.err.kind # "invalid ai-commit.endpoint"
         /\ conf.result.cfg.Endpoint = ResolveChatCompletionsEndpoint(DefaultEndpoint).url

C20_Witness ==
  /\ conf.phase = "done"
  /\ conf.store = Store(Unset, Unset, Unset, Unset, Unset)
  /\ conf.result.err = NoErr
  /\ conf.result.cfg.Endpoint = <<"https", ":", "/", "/", "api.openai.com", "/", "v1", "/",
                                  "chat", "/", "completions">>

\* Every call a in the log is made before every call b.
Before(a, b) ==
  \A i, j \in 1..Len(log) : (log[i] = a /\ log[j] = b) => i < j

\* The errors readConfig returns when key resolution fails.
KeyErrorKinds ==
  { "ai-commit.apiKey: " \o k :
      k \in { "environment variable name must not be empty",
              "environment variable is not set or is empty",
              "endpoint has no scheme or host",
              "cannot parse endpoint URL",
              "git credential fill failed",
              "git credential fill returned no password" } }

ConfigResolutionFailed == ret.kind = "invalid ai-commit.endpoint" \/ ret.kind \in KeyErrorKinds

\* The run fetched the diff or read it from standard input.
DiffFetched == Contains(log, "git diff") \/ Contains(log, "read stdin")

\* C21: in a run, the endpoint is normalised at most once and the key
\* resolved at most once, normalisation first, and the resolver is given the
\* normalised endpoint; the request is sent only after both, with neither
\* failed; when either fails the run ends with no diff fetched and no
\* request sent; and no step after readConfig changes the configuration.
C21_ConfigResolvedOnceBeforeRequest ==
  /\ [](/\ Count(log, "normalize") <= 1
        /\ Count(log, "resolveAPIKey") <= 1
        /\ Before("normalize", "resolveAPIKey")
        /\ Contains(log, "resolveAPIKey") => Contains(log, "normalize")
        /\ ret.kind = "ai-commit.apiKey: endpoint has no scheme or host"
             => /\ ret.about = cfg.Endpoint
                /\ HasSuffix(cfg.Endpoint, <<"chat", "/", "completions">>)
        /\ Contains(log, "http request")
             => /\ Contains(log, "normalize")
                /\ Before("normalize", "http request")
                /\ Before("resolveAPIKey", "http request")
                /\ Contains(log, "config timeoutSeconds")
                /\ HasSuffix(cfg.Endpoint, <<"chat", "/", "completions">>)
        /\ ConfigResolutionFailed
             => /\ pc = "exit"
                /\ ~DiffFetched
                /\ ~Contains(log, "http request")
                /\ log[Len(log)] \in {"normalize", "resolveAPIKey", "getenv", "credential fill"})
  /\ [][cfg' # cfg => (pc = "readConfig" /\ cfg = NoConfig)]_vars

C21_Witness ==
  /\ pc = "exit"
  /\ ret.kind = "ai-commit.apiKey: endpoint has no scheme or host"
  /\ ret.about = <<"/", "h", "/", "v1", "/", "chat", "/", "completions">>
  /\ ~DiffFetched

\* The command line is `hook prepare-commit-msg <file> merge` or `... squash`.
IsMergeOrSquash ==
  /\ IsPrepareCommitMsg
  /\ Len(argv) >= 4
  /\ argv[4] \in {"merge", "squash"}

\* C22: a hook run with source merge or squash makes no call at all (no
\* read of the file, no configuration read, no diff, no credential lookup,
\* no request), reads no configuration, never changes the file, and ends
\* with success: exit code 0 and nothing printed, whether the file exists
\* or not.
C22_MergeAndSquashAreSkipped ==
  /\ [](IsMergeOrSquash =>
          /\ log = <<>>
          /\ existing = <<>>
          /\ cfg = NoConfig
          /\ diffOut = <<>>
          /\ status = ""
          /\ pc \in {"main", "runPrepareCommitMsg", "exit"}
          /\ pc = "exit" => (ret = NoErr /\ exitCode = 0 /\ stderr = <<>> /\ stdout = <<>>))
  /\ [][IsMergeOrSquash => msgFile' = msgFile]_vars

C22_Witness ==
  /\ pc = "exit"
  /\ argv = <<"hook", "prepare-commit-msg", MsgFilePath, "merge">>
  /\ ~msgFile.exists
  /\ ret = NoErr
  /\ exitCode = 0

\* C23: a request is sent only with a diff that is not blank.  When the
\* diff the run obtained is blank, the run has ended without a request: the
\* hook with success and the file neither written nor changed, `show` with
\* the no-diff-content error (unless the fetch itself failed).  The diff
\* meant is the text getStagedDiff returned (or standard input held).
C23_RequestOnlyForNonBlankDiff ==
  /\ [](/\ Contains(log, "http request") => (DiffFetched /\ ~Blank(diff))
        /\ (Contains(log, "read stdin") /\ Blank(diffOut)) => ~Contains(log, "http request")
        /\ (DiffFetched /\ Blank(diff)) =>
             /\ pc = "exit"
             /\ ~Contains(log, "http request")
             /\ ~Contains(log, "write file")
             /\ status = ""
             /\ \/ ret.kind \in {"git diff --cached failed", "read stdin"}
                \/ IF IsHookRun
                   THEN ret = NoErr /\ exitCode = 0 /\ msgFile = File(existing)
                   ELSE ret = Err("no diff content", <<>>) /\ exitCode = 1)
  /\ [][(IsHookRun /\ pc = "diff" /\ Blank(diff')) => msgFile' = msgFile]_vars

C23_Witness ==
  /\ pc = "exit"
  /\ IsHookRun
  /\ Contains(log, "git diff")
  /\ diffOut = <<" ", " ">>
  /\ diff = <<" ", " ">>
  /\ ret = NoErr
  /\ exitCode = 0

====
